---------------------------- MODULE Spec2Model ----------------------------
(***************************************************************************)
(* Model of exam_code.py: the NLP helper functions (get_word_freq,         *)
(* extract_entities, plot_freq_chart, manage_custom_dict) and the NLPApp   *)
(* window, whose button callbacks own the session state                    *)
(* (raw_text, tokens, word_freq).                                          *)
(*                                                                         *)
(* A Python str is a sequence of one-character strings, so that len(),     *)
(* str.split(), str.strip() and file line iteration are computed and not   *)
(* assumed.  A Counter is the sequence of its <<key, count>> items in      *)
(* insertion order (a dict keeps insertion order, and most_common relies   *)
(* on it for ties).  A call that may raise returns a record whose err      *)
(* field names the exception ("none" when it returns normally).            *)
(***************************************************************************)
EXTENDS Integers, Sequences, FiniteSets

VARIABLES
    \* ---- NLPApp (lines 93-267)
    raw_text,       \* self.raw_text
    tokens,         \* self.tokens
    word_freq,      \* self.word_freq: <<>> is None, <<c>> is the Counter c
    filepath,       \* self.filepath (StringVar)
    result_text,    \* content of the self.result_text widget
    img_label,      \* image shown by self.img_label: <<>> or <<picture>>
    dialog,         \* the messagebox the last callback showed ("none" if none)
    raised,         \* the exception the last callback caught ("none" if none)
    call,           \* <<>> or <<[fn, arg]>>: the component the last callback called
    pos_file,       \* content of pos_result.txt: <<>> (absent) or <<lines>>
    userdict,       \* whether jieba.load_userdict has added the user words
    stopwords_file, \* stopwords.txt on disk
    \* ---- get_word_freq / plot_freq_chart called directly
    fq_tokens,      \* the tokens argument
    fq_out,         \* <<>> before the call, <<result>> after get_word_freq
    fq_plot,        \* <<>> or <<[n, kind, lib_ok, out]>>: the last plot_freq_chart call
    \* ---- manage_custom_dict called directly
    dict_file,      \* the dictionary file
    dict_init,      \* the dictionary file at the start
    dict_prev,      \* the dictionary file before the last call
    dict_log,       \* the calls made so far, <<action, word>> each
    dict_err,       \* exception of the last call
    \* ---- extract_entities called directly
    en_pairs,       \* the (word, flag) pairs the tagger produced
    en_tags,        \* entity_tags
    en_out          \* <<>> before the call, <<result>> after

shellVars == <<raw_text, tokens, word_freq, filepath, result_text, img_label,
               dialog, raised, call, pos_file, userdict>>
freqVars == <<fq_tokens, fq_out, fq_plot>>
dictVars == <<dict_file, dict_init, dict_prev, dict_log, dict_err>>
entVars == <<en_pairs, en_tags, en_out>>
vars == <<shellVars, stopwords_file, freqVars, dictVars, entVars>>

-----------------------------------------------------------------------------
(* Bounds of the model *)

\* longest token list handed to get_word_freq
MaxTokens == 4
\* largest top_n handed to plot_freq_chart
MaxTopN == 3
\* most manage_custom_dict calls in a row
MaxDictOps == 3
\* longest tagged list handed to extract_entities
MaxPairs == 2

-----------------------------------------------------------------------------
(* Python str and list primitives *)

Range(s) == {s[i] : i \in DOMAIN s}

Min(a, b) == IF a < b THEN a ELSE b

\* s[:n]
Take(s, n) == SubSeq(s, 1, Min(n, Len(s)))

\* list.count(x)
Count(s, x) == Cardinality({i \in DOMAIN s : s[i] = x})

\* str.isspace of one character
IsSpace(c) == c \in {" ", "\n", "\t"}

RECURSIVE LStrip(_)
LStrip(s) ==
    IF s = <<>> THEN <<>>
    ELSE IF IsSpace(Head(s)) THEN LStrip(Tail(s)) ELSE s

RECURSIVE RStrip(_)
RStrip(s) ==
    IF s = <<>> THEN <<>>
    ELSE IF IsSpace(s[Len(s)]) THEN RStrip(SubSeq(s, 1, Len(s) - 1)) ELSE s

\* str.strip()
Strip(s) == RStrip(LStrip(s))

RECURSIVE SplitAcc(_, _, _)
SplitAcc(s, cur, out) ==
    IF s = <<>> THEN (IF cur = <<>> THEN out ELSE Append(out, cur))
    ELSE IF IsSpace(Head(s))
         THEN SplitAcc(Tail(s), <<>>, IF cur = <<>> THEN out ELSE Append(out, cur))
         ELSE SplitAcc(Tail(s), Append(cur, Head(s)), out)

\* str.split(): the maximal runs of non-whitespace characters
Split(s) == SplitAcc(s, <<>>, <<>>)

RECURSIVE LinesAcc(_, _, _)
LinesAcc(s, cur, out) ==
    IF s = <<>> THEN (IF cur = <<>> THEN out ELSE Append(out, cur))
    ELSE IF Head(s) = "\n"
         THEN LinesAcc(Tail(s), <<>>, Append(out, Append(cur, "\n")))
         ELSE LinesAcc(Tail(s), Append(cur, Head(s)), out)

\* iterating a text file: its lines, each with its line end
Lines(s) == LinesAcc(s, <<>>, <<>>)

RECURSIVE Concat(_)
\* file.writelines(lines), "".join(lines)
Concat(ss) == IF ss = <<>> THEN <<>> ELSE Head(ss) \o Concat(Tail(ss))

RECURSIVE Join(_, _)
\* sep.join(ss)
Join(ss, sep) ==
    IF ss = <<>> THEN <<>>
    ELSE IF Len(ss) = 1 THEN ss[1]
    ELSE ss[1] \o sep \o Join(Tail(ss), sep)

-----------------------------------------------------------------------------
(* collections.Counter *)

\* Counter: c[w] += 1
CounterAdd(c, w) ==
    IF \E i \in DOMAIN c : c[i][1] = w
    THEN [i \in DOMAIN c |-> IF c[i][1] = w THEN <<w, c[i][2] + 1>> ELSE c[i]]
    ELSE Append(c, <<w, 1>>)

RECURSIVE CounterAcc(_, _)
CounterAcc(ws, c) ==
    IF ws = <<>> THEN c ELSE CounterAcc(Tail(ws), CounterAdd(c, Head(ws)))

\* Counter(ws)
Counter(ws) == CounterAcc(ws, <<>>)

\* one step of the stable descending sort: x goes after every item whose
\* count is at least its own
InsertDesc(sorted, x) ==
    LET k == Cardinality({i \in DOMAIN sorted : sorted[i][2] >= x[2]})
    IN SubSeq(sorted, 1, k) \o <<x>> \o SubSeq(sorted, k + 1, Len(sorted))

RECURSIVE SortDescAcc(_, _)
SortDescAcc(items, sorted) ==
    IF items = <<>> THEN sorted
    ELSE SortDescAcc(Tail(items), InsertDesc(sorted, Head(items)))

\* sorted(items, key=itemgetter(1), reverse=True): stable
SortDesc(items) == SortDescAcc(items, <<>>)

\* Counter.most_common(n) = heapq.nlargest(n, items, key=count):
\* nothing for n <= 0, else the first n of the stable descending sort
most_common(c, n) == IF n <= 0 THEN <<>> ELSE Take(SortDesc(c), n)

-----------------------------------------------------------------------------
(* Files on disk *)

Missing == [st |-> "missing", data |-> <<>>]
Unreadable == [st |-> "unreadable", data |-> <<>>]
File(data) == [st |-> "ok", data |-> data]

\* the stopwords.txt contents tried
StopFiles ==
    { Missing, Unreadable, File(<<>>), File(<<"a", "b">>),
      File(<<" ", "b", "a", "\n", "a", " ">>) }

\* the tokens tried
Vocabulary ==
    { <<>>, <<"a">>, <<"a", "b">>, <<"b", "a">>, <<"b", "b">> }

SeqsUpTo(S, n) == UNION {[1..k -> S] : k \in 0..n}

-----------------------------------------------------------------------------
(* get_word_freq, lines 25-31 *)

Ok(v) == [err |-> "none", val |-> v]
Raise(e) == [err |-> e, val |-> <<>>]

\* lines 27-30: set(open(path).read().split()), the empty set if the file
\* does not exist; any other failure of open/read is not caught
load_stopwords_raises(file) ==
    IF file.st = "ok" THEN Ok(Range(Split(file.data))) ELSE Raise("OSError")

load_stopwords(file) ==
    IF file.st = "missing" THEN Ok({})
    ELSE IF file.st = "unreadable" THEN Raise("OSError")
    ELSE Ok(Range(Split(file.data)))

keep_nonempty(w, stopwords) == w \notin stopwords /\ Len(w) > 0

\* line 31: the filter of the list comprehension
keep(w, stopwords) == w \notin stopwords /\ Len(w) > 1

get_word_freq(toks, file) ==
    LET sw == load_stopwords(file)
    IN IF sw.err # "none" THEN Raise(sw.err)
       ELSE Ok(Counter(SelectSeq(toks, LAMBDA w : keep(w, sw.val))))

-----------------------------------------------------------------------------
(* plot_freq_chart, lines 58-77 *)

ChartTypes == {"bar", "pie"}

\* line 65
select_head(counter, top_n) == Take(counter, top_n)

select_items(counter, top_n) == most_common(counter, top_n)

\* lines 65-77; lib_ok is whether matplotlib draws and saves the figure.
\* words, counts = zip(*items) raises ValueError when items is empty.
plot_freq_chart(counter, top_n, chart_type, lib_ok) ==
    LET items == select_items(counter, top_n)
    IN IF items = <<>> THEN Raise("ValueError")
       ELSE IF ~lib_ok THEN Raise("OSError")
       ELSE Ok([kind |-> chart_type,
                words |-> [i \in DOMAIN items |-> items[i][1]],
                counts |-> [i \in DOMAIN items |-> items[i][2]]])

-----------------------------------------------------------------------------
(* Idle parts: what a specification that does not use a part keeps fixed *)

ShellIdle ==
    /\ raw_text = <<>> /\ tokens = <<>> /\ word_freq = <<>>
    /\ filepath = "" /\ result_text = <<>> /\ img_label = <<>>
    /\ dialog = [kind |-> "none", msg |-> ""] /\ raised = "none" /\ call = <<>>
    /\ pos_file = <<>> /\ userdict = FALSE

FreqIdle == fq_tokens = <<>> /\ fq_out = <<>> /\ fq_plot = <<>>

DictIdle ==
    /\ dict_file = Missing /\ dict_init = Missing /\ dict_prev = Missing
    /\ dict_log = <<>> /\ dict_err = "none"

EntIdle == en_pairs = <<>> /\ en_tags = {} /\ en_out = <<>>

-----------------------------------------------------------------------------
(* get_word_freq and plot_freq_chart applied to every input *)

FreqInit ==
    /\ fq_tokens \in SeqsUpTo(Vocabulary, MaxTokens)
    /\ stopwords_file \in StopFiles
    /\ fq_out = <<>>
    /\ fq_plot = <<>>
    /\ ShellIdle /\ DictIdle /\ EntIdle

FqGetWordFreq ==
    /\ fq_out = <<>>
    /\ fq_out' = <<get_word_freq(fq_tokens, stopwords_file)>>
    /\ UNCHANGED <<fq_tokens, fq_plot, stopwords_file, shellVars, dictVars, entVars>>

FqPlot ==
    /\ fq_out # <<>>
    /\ fq_plot = <<>>
    /\ fq_out[1].err = "none"
    /\ \E n \in 0..MaxTopN, kind \in ChartTypes, lib_ok \in BOOLEAN :
          fq_plot' = <<[n |-> n, kind |-> kind, lib_ok |-> lib_ok,
                        out |-> plot_freq_chart(fq_out[1].val, n, kind, lib_ok)]>>
    /\ UNCHANGED <<fq_tokens, fq_out, stopwords_file, shellVars, dictVars, entVars>>

FreqNext == FqGetWordFreq \/ FqPlot

SpecFreq == FreqInit /\ [][FreqNext]_vars

-----------------------------------------------------------------------------
(* manage_custom_dict, lines 80-89 *)

\* the words tried
DictWords == { <<>>, <<"a">>, <<"a", "b">>, <<" ", "a">> }

\* the dictionary files tried
DictFiles ==
    { Missing, File(<<>>), File(<<"a", "\n">>),
      File(<<" ", "a", " ", "\n", "b", "\n", "a">>),
      File(<<"a", "\n", "\n", "a", "b", "\n">>) }

RECURSIVE kept_lines_first_only(_, _)
kept_lines_first_only(lines, word) ==
    IF lines = <<>> THEN <<>>
    ELSE IF Strip(Head(lines)) # word
         THEN <<Head(lines)>> \o kept_lines_first_only(Tail(lines), word)
         ELSE Tail(lines)

RECURSIVE kept_lines_unstripped(_, _)
kept_lines_unstripped(lines, word) ==
    IF lines = <<>> THEN <<>>
    ELSE IF Head(lines) # word
         THEN <<Head(lines)>> \o kept_lines_unstripped(Tail(lines), word)
         ELSE kept_lines_unstripped(Tail(lines), word)

RECURSIVE kept_lines(_, _)
\* lines 86-87: [line for line in open(dict_path) if line.strip() != word]
kept_lines(lines, word) ==
    IF lines = <<>> THEN <<>>
    ELSE IF Strip(Head(lines)) # word
         THEN <<Head(lines)>> \o kept_lines(Tail(lines), word)
         ELSE kept_lines(Tail(lines), word)

\* the call's exception and the file it leaves.  Mode 'a' creates a file that
\* does not exist; reading one that does not exist raises.
manage_custom_dict(word, action, file) ==
    IF action = "add"
    THEN [err |-> "none", file |-> File(file.data \o <<"\n">> \o word)]
    ELSE IF action = "remove"
    THEN IF file.st = "missing"
         THEN [err |-> "FileNotFoundError", file |-> file]
         ELSE [err |-> "none",
               file |-> File(Concat(kept_lines(Lines(file.data), word)))]
    ELSE [err |-> "none", file |-> file]

DictInit ==
    /\ dict_file \in DictFiles
    /\ dict_init = dict_file
    /\ dict_prev = dict_file
    /\ dict_log = <<>>
    /\ dict_err = "none"
    /\ stopwords_file = Missing
    /\ ShellIdle /\ FreqIdle /\ EntIdle

DictCall(word, action) ==
    /\ Len(dict_log) < MaxDictOps
    /\ LET r == manage_custom_dict(word, action, dict_file)
       IN /\ dict_file' = r.file
          /\ dict_err' = r.err
    /\ dict_prev' = dict_file
    /\ dict_log' = Append(dict_log, <<action, word>>)
    /\ UNCHANGED <<dict_init, stopwords_file, shellVars, freqVars, entVars>>

DictAdd == \E w \in DictWords : DictCall(w, "add")

DictRemove == \E w \in DictWords : DictCall(w, "remove")

DictNext == DictAdd \/ DictRemove

SpecDict == DictInit /\ [][DictNext]_vars

-----------------------------------------------------------------------------
(* extract_entities, lines 43-47 *)

\* POS flags, as jieba names them
NR == <<"n", "r">>
NS == <<"n", "s">>
NN == <<"n">>
XX == <<"x">>

\* line 230 (and line 37): f"{word} {flag}"
tag_line(word, flag) == word \o <<" ">> \o flag

RECURSIVE extract_acc(_, _, _)
\* the list comprehension of lines 45-47, one line at a time:
\* word.split()[1] raises IndexError when the line has fewer than two fields
extract_acc(lines, entity_tags, out) ==
    IF lines = <<>> THEN Ok(out)
    ELSE LET f == Split(Head(lines))
         IN IF Len(f) < 2 THEN Raise("IndexError")
            ELSE extract_acc(Tail(lines), entity_tags,
                             IF f[2] \in entity_tags
                             THEN Append(out, <<f[1], f[2]>>) ELSE out)

extract_entities(pos_result, entity_tags) ==
    extract_acc(pos_result, entity_tags, <<>>)

\* the tagged tokens tried: a word, a blank, a word with a blank in it
EntTokens == { <<"a">>, <<" ">>, <<"a", "b">>, <<"a", " ", "n", "r">> }
EntFlags == { NR, NS, NN, XX }
EntTagSets == { {NR, NS}, {NR}, {} }

EntInit ==
    /\ en_pairs \in SeqsUpTo(EntTokens \X EntFlags, MaxPairs)
    /\ en_tags \in EntTagSets
    /\ en_out = <<>>
    /\ stopwords_file = Missing
    /\ ShellIdle /\ FreqIdle /\ DictIdle

\* extract_entities on the lines the window builds from the tagger's pairs
EntExtract ==
    /\ en_out = <<>>
    /\ en_out' = <<extract_entities(
                      [i \in DOMAIN en_pairs |-> tag_line(en_pairs[i][1], en_pairs[i][2])],
                      en_tags)>>
    /\ UNCHANGED <<en_pairs, en_tags, stopwords_file, shellVars, freqVars, dictVars>>

EntNext == EntExtract

SpecEntity == EntInit /\ [][EntNext]_vars

-----------------------------------------------------------------------------
(* The libraries the window calls: jieba and wordcloud.  Their code is not  *)
(* part of the program; each is replaced by a small deterministic stand-in  *)
(* with the properties the program relies on.                               *)

\* the words jieba knows from the start, and those of the user dictionary
BaseWords == { <<"a", "b">> }
UserWords == { <<"b", "a">> }
Vocab(ud) == IF ud THEN BaseWords \cup UserWords ELSE BaseWords

RECURSIVE Cut(_, _)
\* jieba.cut(text): tokens that cover the text without gaps (blanks are
\* tokens too); here the longest known word at each position, else one
\* character
Cut(text, vocab) ==
    IF text = <<>> THEN <<>>
    ELSE LET known == {k \in 1..Len(text) : SubSeq(text, 1, k) \in vocab}
             k == IF known = {} THEN 1
                  ELSE CHOOSE m \in known : \A o \in known : o <= m
         IN <<SubSeq(text, 1, k)>> \o Cut(SubSeq(text, k + 1, Len(text)), vocab)

\* the flag pseg gives a token: x for whitespace, nr and ns for the two names
Flag(w) ==
    IF \A i \in DOMAIN w : IsSpace(w[i]) THEN XX
    ELSE IF w = <<"a", "b">> THEN NR
    ELSE IF w = <<"b", "a">> THEN NS
    ELSE NN

\* pseg.cut(text): the (word, flag) pairs
PsegCut(text, vocab) ==
    LET ws == Cut(text, vocab) IN [i \in DOMAIN ws |-> <<ws[i], Flag(ws[i])>>]

-----------------------------------------------------------------------------
(* The other NLP functions *)

\* the files the file dialog can name; "" is a cancelled dialog
Paths == {"a.txt", "b.txt", "bad.txt"}

DocA == <<"a", "b", " ", "b", "a">>
DocB == <<"b", "a", "b", "a">>

\* the disk: two documents and a file that cannot be read as UTF-8 text
Disk(path) ==
    IF path = "a.txt" THEN File(DocA)
    ELSE IF path = "b.txt" THEN File(DocB)
    ELSE Unreadable

\* lines 12-15
load_text(path) ==
    IF Disk(path).st = "ok" THEN Ok(Disk(path).data) ELSE Raise("OSError")

\* lines 18-22, called without user_dict; lib_ok is whether jieba works
tokenize(text, vocab, lib_ok) ==
    IF lib_ok THEN Ok(Cut(text, vocab)) ELSE Raise("RuntimeError")

\* lines 34-40; disk_ok is whether pos_result.txt can be written.
\* val is the returned list, file the text written.
pos_analysis(text, vocab, disk_ok) ==
    LET words == PsegCut(text, vocab)
        result == [i \in DOMAIN words |-> tag_line(words[i][1], words[i][2])]
    IN IF disk_ok
       THEN [err |-> "none", val |-> result, file |-> Join(result, <<"\n">>)]
       ELSE [err |-> "OSError", val |-> <<>>, file |-> <<>>]

\* lines 50-55; WordCloud.generate raises ValueError on a text without words,
\* lib_ok is whether the font is found and the image written
generate_wordcloud(text, lib_ok) ==
    IF Split(text) = <<>> THEN Raise("ValueError")
    ELSE IF ~lib_ok THEN Raise("OSError")
    ELSE Ok([kind |-> "cloud", words |-> Split(text), counts |-> <<>>])

-----------------------------------------------------------------------------
(* NLPApp, lines 93-267 *)

\* tokens[:200] of line 192
TokPreview == 200
\* most_common(10) of line 204
TopWords == 10
\* top_n=10, the default of plot_freq_chart the window relies on
DefaultTopN == 10

NoDialog == [kind |-> "none", msg |-> ""]
\* messagebox.showerror, messagebox.showinfo
ShowError(msg) == [kind |-> "error", msg |-> msg]
ShowInfo(msg) == [kind |-> "info", msg |-> msg]

session == <<raw_text, tokens, word_freq>>

\* lines 100-102
ShellInit ==
    /\ raw_text = <<>>
    /\ tokens = <<>>
    /\ word_freq = <<>>
    /\ filepath = ""
    /\ result_text = <<>>
    /\ img_label = <<>>
    /\ dialog = NoDialog
    /\ raised = "none"
    /\ call = <<>>
    /\ pos_file = <<>>
    /\ userdict = FALSE
    /\ stopwords_file \in {Missing, Unreadable, File(<<"a", "b">>)}
    /\ FreqIdle /\ DictIdle /\ EntIdle

others == <<stopwords_file, freqVars, dictVars, entVars>>

\* a callback that returns at its guard, showing msg
Refuse(msg) ==
    /\ dialog' = ShowError(msg)
    /\ raised' = "none"
    /\ call' = <<>>
    /\ UNCHANGED <<session, filepath, result_text, img_label, pos_file, userdict>>

\* the except branch of a callback: the exception e of the call c is shown
Caught(c, e, msg) ==
    /\ call' = <<c>>
    /\ raised' = e
    /\ dialog' = ShowError(msg)

\* lines 258-267; disp_ok is whether PIL opens and resizes the image file.
\* display_image catches its own exception.
display_image(picture, disp_ok) ==
    IF disp_ok
    THEN /\ img_label' = <<picture>>
         /\ raised' = "none"
         /\ dialog' = NoDialog
    ELSE /\ img_label' = img_label
         /\ raised' = "OSError"
         /\ dialog' = ShowError("image_display_failed")

\* lines 162-172
load_file ==
    /\ \E path \in Paths \cup {""} :
          IF path = ""
          THEN /\ dialog' = NoDialog
               /\ raised' = "none"
               /\ call' = <<>>
               /\ UNCHANGED <<raw_text, filepath, result_text>>
          ELSE LET r == load_text(path)
               IN /\ filepath' = path
                  /\ IF r.err = "none"
                     THEN /\ raw_text' = r.val
                          /\ result_text' = <<"load_ok">>
                          /\ call' = <<[fn |-> "load_text", arg |-> path]>>
                          /\ raised' = "none"
                          /\ dialog' = NoDialog
                     ELSE /\ Caught([fn |-> "load_text", arg |-> path], r.err,
                                    "file_read_failed")
                          /\ UNCHANGED <<raw_text, result_text>>
    /\ UNCHANGED <<tokens, word_freq, img_label, pos_file, userdict, others>>

\* lines 174-182; the dictionary file may be one jieba cannot parse
load_dict ==
    /\ \E path \in {"", "dict.txt", "bad.txt"} :
          IF path = ""
          THEN /\ dialog' = NoDialog
               /\ raised' = "none"
               /\ call' = <<>>
               /\ UNCHANGED userdict
          ELSE IF path = "dict.txt"
          THEN /\ userdict' = TRUE
               /\ call' = <<[fn |-> "load_userdict", arg |-> path]>>
               /\ raised' = "none"
               /\ dialog' = ShowInfo("dict_loaded")
          ELSE /\ Caught([fn |-> "load_userdict", arg |-> path], "ValueError",
                         "dict_load_failed")
               /\ UNCHANGED userdict
    /\ UNCHANGED <<session, filepath, result_text, img_label, pos_file, others>>

run_tokenize_clears ==
    /\ IF raw_text = <<>>
       THEN Refuse("select_file_first")
       ELSE \E lib_ok \in BOOLEAN :
               LET r == tokenize(raw_text, Vocab(userdict), lib_ok)
               IN /\ tokens' = r.val
                  /\ IF r.err = "none"
                     THEN /\ result_text' = <<"tokens", Take(r.val, TokPreview)>>
                          /\ call' = <<[fn |-> "tokenize", arg |-> raw_text]>>
                          /\ raised' = "none"
                          /\ dialog' = NoDialog
                     ELSE /\ Caught([fn |-> "tokenize", arg |-> raw_text], r.err,
                                    "tokenize_failed")
                          /\ UNCHANGED result_text
                  /\ UNCHANGED <<raw_text, word_freq, filepath, img_label,
                                 pos_file, userdict>>
    /\ UNCHANGED others

\* lines 184-194
run_tokenize ==
    /\ IF raw_text = <<>>
       THEN Refuse("select_file_first")
       ELSE \E lib_ok \in BOOLEAN :
               LET r == tokenize(raw_text, Vocab(userdict), lib_ok)
               IN /\ IF r.err = "none"
                     THEN /\ tokens' = r.val
                          /\ result_text' = <<"tokens", Take(r.val, TokPreview)>>
                          /\ call' = <<[fn |-> "tokenize", arg |-> raw_text]>>
                          /\ raised' = "none"
                          /\ dialog' = NoDialog
                     ELSE /\ Caught([fn |-> "tokenize", arg |-> raw_text], r.err,
                                    "tokenize_failed")
                          /\ UNCHANGED <<tokens, result_text>>
                  /\ UNCHANGED <<raw_text, word_freq, filepath, img_label,
                                 pos_file, userdict>>
    /\ UNCHANGED others

\* lines 196-209
run_word_freq ==
    /\ IF tokens = <<>>
       THEN Refuse("tokenize_first")
       ELSE LET r == get_word_freq(tokens, stopwords_file)
            IN /\ IF r.err = "none"
                  THEN /\ word_freq' = <<r.val>>
                       /\ result_text' = <<"freq", most_common(r.val, TopWords)>>
                       /\ call' = <<[fn |-> "get_word_freq", arg |-> tokens]>>
                       /\ raised' = "none"
                       /\ dialog' = NoDialog
                  ELSE /\ Caught([fn |-> "get_word_freq", arg |-> tokens], r.err,
                                 "word_freq_failed")
                       /\ UNCHANGED <<word_freq, result_text>>
               /\ UNCHANGED <<raw_text, tokens, filepath, img_label, pos_file,
                              userdict>>
    /\ UNCHANGED others

\* lines 211-221
run_pos_analysis ==
    /\ IF raw_text = <<>>
       THEN Refuse("load_file_first")
       ELSE \E disk_ok \in BOOLEAN :
               LET r == pos_analysis(raw_text, Vocab(userdict), disk_ok)
               IN /\ IF r.err = "none"
                     THEN /\ pos_file' = <<r.file>>
                          /\ result_text' = <<"pos_saved">>
                          /\ call' = <<[fn |-> "pos_analysis", arg |-> raw_text]>>
                          /\ raised' = "none"
                          /\ dialog' = NoDialog
                     ELSE /\ Caught([fn |-> "pos_analysis", arg |-> raw_text],
                                    r.err, "pos_failed")
                          /\ UNCHANGED <<pos_file, result_text>>
                  /\ UNCHANGED <<session, filepath, img_label, userdict>>
    /\ UNCHANGED others

\* lines 223-234
run_entity_extract ==
    /\ IF raw_text = <<>>
       THEN Refuse("load_file_first")
       ELSE LET pos_result == PsegCut(raw_text, Vocab(userdict))
                lines == [i \in DOMAIN pos_result |->
                             tag_line(pos_result[i][1], pos_result[i][2])]
                r == extract_entities(lines, {NR, NS})
            IN /\ IF r.err = "none"
                  THEN /\ result_text' = <<"entities", r.val>>
                       /\ call' = <<[fn |-> "extract_entities", arg |-> lines]>>
                       /\ raised' = "none"
                       /\ dialog' = NoDialog
                  ELSE /\ Caught([fn |-> "extract_entities", arg |-> lines],
                                 r.err, "entity_failed")
                       /\ UNCHANGED result_text
               /\ UNCHANGED <<session, filepath, img_label, pos_file, userdict>>
    /\ UNCHANGED others

\* lines 236-245
show_wordcloud ==
    /\ IF raw_text = <<>>
       THEN Refuse("load_file_first")
       ELSE \E lib_ok \in BOOLEAN, disp_ok \in BOOLEAN :
               LET text == Join(tokens, <<" ">>)
                   r == generate_wordcloud(text, lib_ok)
               IN /\ IF r.err = "none"
                     THEN /\ call' = <<[fn |-> "generate_wordcloud", arg |-> text]>>
                          /\ display_image(r.val, disp_ok)
                     ELSE /\ Caught([fn |-> "generate_wordcloud", arg |-> text],
                                    r.err, "wordcloud_failed")
                          /\ UNCHANGED img_label
                  /\ UNCHANGED <<session, filepath, result_text, pos_file, userdict>>
    /\ UNCHANGED others

\* lines 247-256; not self.word_freq holds for None and for an empty Counter
show_chart(chart_type) ==
    /\ IF word_freq = <<>> \/ word_freq = << <<>> >>
       THEN Refuse("word_freq_first")
       ELSE \E lib_ok \in BOOLEAN, disp_ok \in BOOLEAN :
               LET r == plot_freq_chart(word_freq[1], DefaultTopN, chart_type, lib_ok)
               IN /\ IF r.err = "none"
                     THEN /\ call' = <<[fn |-> "plot_freq_chart", arg |-> word_freq[1]]>>
                          /\ display_image(r.val, disp_ok)
                     ELSE /\ Caught([fn |-> "plot_freq_chart", arg |-> word_freq[1]],
                                    r.err, "chart_failed")
                          /\ UNCHANGED img_label
                  /\ UNCHANGED <<session, filepath, result_text, pos_file, userdict>>
    /\ UNCHANGED others

Next ==
    \/ load_file
    \/ load_dict
    \/ run_tokenize
    \/ run_word_freq
    \/ run_pos_analysis
    \/ run_entity_extract
    \/ show_wordcloud
    \/ \E chart_type \in ChartTypes : show_chart(chart_type)

Spec == ShellInit /\ [][Next]_vars

-----------------------------------------------------------------------------
(* Properties of get_word_freq and plot_freq_chart *)

FreqDone == fq_out # <<>> /\ fq_out[1].err = "none"

\* w stands in the stopword file as a maximal run of non-whitespace characters
InStopFile(w) ==
    /\ stopwords_file.st = "ok"
    /\ LET d == stopwords_file.data
       IN \E i \in DOMAIN d : \E j \in i..Len(d) :
             /\ SubSeq(d, i, j) = w
             /\ \A k \in i..j : ~IsSpace(d[k])
             /\ i = 1 \/ IsSpace(d[i - 1])
             /\ j = Len(d) \/ IsSpace(d[j + 1])

\* C1: the table get_word_freq returns has no key of length one or zero and
\* no key of the stopword file, its keys are distinct, and every other token
\* of the input is a key counted with its number of occurrences in the input.
C1_FreqTable ==
    FreqDone =>
        LET c == fq_out[1].val
        IN /\ \A i \in DOMAIN c : Len(c[i][1]) > 1 /\ ~InStopFile(c[i][1])
           /\ \A i, j \in DOMAIN c : c[i][1] = c[j][1] => i = j
           /\ \A k \in DOMAIN fq_tokens :
                 LET t == fq_tokens[k]
                 IN (Len(t) > 1 /\ ~InStopFile(t)) =>
                       \E i \in DOMAIN c : c[i] = <<t, Count(fq_tokens, t)>>

\* C1 witness: a table computed from an input holding a one-character token,
\* a stopword of two characters, and a token counted twice.
C1_Witness ==
    /\ FreqDone
    /\ \E k \in DOMAIN fq_tokens : Len(fq_tokens[k]) = 1
    /\ \E k \in DOMAIN fq_tokens : Len(fq_tokens[k]) > 1 /\ InStopFile(fq_tokens[k])
    /\ \E i \in DOMAIN fq_out[1].val : fq_out[1].val[i][2] = 2

\* C7: with a stopword file that does not exist get_word_freq returns, without
\* raising, the table it returns for the same tokens and an empty stopword file.
C7_MissingAsEmpty ==
    (fq_out # <<>> /\ stopwords_file = Missing) =>
        /\ fq_out[1].err = "none"
        /\ fq_out[1] = get_word_freq(fq_tokens, File(<<>>))

\* C7 witness: a non-empty table computed with the stopword file missing.
C7_Witness ==
    /\ fq_out # <<>>
    /\ stopwords_file = Missing
    /\ fq_out[1].val # <<>>

\* first position of w in the tokens handed to get_word_freq
FirstSeen(w) ==
    CHOOSE i \in DOMAIN fq_tokens :
        fq_tokens[i] = w /\ \A j \in 1..(i - 1) : fq_tokens[j] # w

\* item <<w1, n1>> goes before item <<w2, n2>>: the larger count, and for equal
\* counts the word seen first
Before(w1, n1, w2, n2) ==
    n1 > n2 \/ (n1 = n2 /\ FirstSeen(w1) < FirstSeen(w2))

\* what plot_freq_chart selected is the first p.n items of the table c by
\* descending count, ties by first occurrence
TopNSelected(p, c) ==
    /\ p.out.err = "none"
    /\ Len(p.out.val.words) = p.n
    /\ Len(p.out.val.counts) = p.n
    /\ \A i \in 1..p.n :
          \E k \in DOMAIN c : c[k] = <<p.out.val.words[i], p.out.val.counts[i]>>
    /\ \A i, j \in 1..p.n :
          i < j => Before(p.out.val.words[i], p.out.val.counts[i],
                          p.out.val.words[j], p.out.val.counts[j])
    /\ \A k \in DOMAIN c :
          (\A i \in 1..p.n : p.out.val.words[i] # c[k][1]) =>
             \A i \in 1..p.n :
                Before(p.out.val.words[i], p.out.val.counts[i], c[k][1], c[k][2])

\* C8 as stated: plot_freq_chart with top_n = N on a table of at least N words
\* selects exactly N items, by descending count, ties by first occurrence
\* (the drawing library working).
C8_TopN_Original ==
    (fq_plot # <<>> /\ fq_plot[1].lib_ok /\ Len(fq_out[1].val) >= fq_plot[1].n) =>
        TopNSelected(fq_plot[1], fq_out[1].val)

\* C8 amended: the same for top_n = N >= 1; with top_n = 0 nothing is selected
\* and the unpacking of line 66 raises.
C8_TopN ==
    (/\ fq_plot # <<>> /\ fq_plot[1].lib_ok
     /\ fq_plot[1].n >= 1
     /\ Len(fq_out[1].val) >= fq_plot[1].n) =>
        TopNSelected(fq_plot[1], fq_out[1].val)

\* C8 witness: two items selected out of three, the second tied with the one
\* left out.
C8_Witness ==
    /\ fq_plot # <<>> /\ fq_plot[1].lib_ok
    /\ fq_plot[1].n = 2
    /\ Len(fq_out[1].val) = 3
    /\ fq_plot[1].out.err = "none"
    /\ \E k \in DOMAIN fq_out[1].val :
          /\ fq_out[1].val[k][1] \notin Range(fq_plot[1].out.val.words)
          /\ fq_out[1].val[k][2] = fq_plot[1].out.val.counts[2]

-----------------------------------------------------------------------------
(* Properties of manage_custom_dict *)

\* a line of the file without its line end
LineText(l) ==
    IF l # <<>> /\ l[Len(l)] = "\n" THEN SubSeq(l, 1, Len(l) - 1) ELSE l

\* the lines of data that are exactly w
ExactOcc(data, w) ==
    Cardinality({i \in DOMAIN Lines(data) : LineText(Lines(data)[i]) = w})

\* the lines of data that are w once stripped
StripOcc(data, w) ==
    Cardinality({i \in DOMAIN Lines(data) : Strip(Lines(data)[i]) = w})

\* the calls so far are exactly ops, on a file that was empty
FromEmpty(ops) == dict_init = File(<<>>) /\ dict_log = ops

\* C2 as stated: add(word) then remove(word) on an empty dictionary file
\* leaves the file empty.
C2_RoundTripEmpty ==
    \A w \in DictWords :
        FromEmpty(<< <<"add", w>>, <<"remove", w>> >>) => dict_file.data = <<>>

\* C3 as stated: add(word) twice then remove(word) once on an empty file
\* leaves exactly one occurrence of word.
C3_OneLeft_Original ==
    \A w \in DictWords :
        FromEmpty(<< <<"add", w>>, <<"add", w>>, <<"remove", w>> >>) =>
            ExactOcc(dict_file.data, w) = 1

\* C3 amended: add(word) twice then remove(word) once on an empty file leaves
\* no line that is word once stripped; a word without surrounding whitespace
\* has no occurrence left.
C3_NoneLeft ==
    \A w \in DictWords :
        FromEmpty(<< <<"add", w>>, <<"add", w>>, <<"remove", w>> >>) =>
            /\ dict_err = "none"
            /\ StripOcc(dict_file.data, w) = 0
            /\ Strip(w) = w => ExactOcc(dict_file.data, w) = 0

\* C3 witness: the three calls made with the word "a", which stood twice in
\* the file before the remove.
C3_Witness ==
    /\ FromEmpty(<< <<"add", <<"a">>>>, <<"add", <<"a">>>>, <<"remove", <<"a">>>> >>)
    /\ ExactOcc(dict_prev.data, <<"a">>) = 2

\* the last call was remove(w) and it returned
Removed(w) ==
    /\ dict_log # <<>>
    /\ dict_log[Len(dict_log)] = <<"remove", w>>
    /\ dict_err = "none"

\* C4 as stated: remove leaves out exactly the lines that are the word, and
\* keeps every other line, those that differ by surrounding whitespace too,
\* unchanged and in order.
C4_RemoveExact_Original ==
    \A w \in DictWords :
        Removed(w) =>
            Lines(dict_file.data) =
                SelectSeq(Lines(dict_prev.data), LAMBDA l : LineText(l) # w)

\* C4 amended: remove leaves out exactly the lines that are the word once
\* stripped of surrounding whitespace, and keeps every other line unchanged
\* and in order.
C4_RemoveStripped ==
    \A w \in DictWords :
        Removed(w) =>
            /\ Lines(dict_file.data) =
                  SelectSeq(Lines(dict_prev.data), LAMBDA l : Strip(l) # w)
            /\ dict_file.data =
                  Concat(SelectSeq(Lines(dict_prev.data), LAMBDA l : Strip(l) # w))

\* C4 witness: a remove from a file holding the word as a line, the word
\* padded with blanks as another line, and a line that stays.
C4_Witness ==
    \E w \in DictWords :
        /\ Removed(w)
        /\ \E i \in DOMAIN Lines(dict_prev.data) :
              LineText(Lines(dict_prev.data)[i]) = w
        /\ \E i \in DOMAIN Lines(dict_prev.data) :
              /\ Strip(Lines(dict_prev.data)[i]) = w
              /\ LineText(Lines(dict_prev.data)[i]) # w
        /\ dict_file.data # <<>>

-----------------------------------------------------------------------------
(* Properties of extract_entities *)

\* C5 as stated: for the lines built from any tagged tokens, those with
\* whitespace in the token too, extract_entities returns, in order, exactly
\* the input pairs whose tag is in the allow-set.
C5_EntitySubsequence ==
    en_out # <<>> =>
        /\ en_out[1].err = "none"
        /\ en_out[1].val = SelectSeq(en_pairs, LAMBDA p : p[2] \in en_tags)

-----------------------------------------------------------------------------
(* Properties of the window *)

\* C6: in every callback, an exception raised by the component it calls is
\* caught and shown as an error dialog with raw_text, tokens and word_freq
\* as they were; they change only in a callback whose component call returned.
C6_FailureKeepsSession ==
    [][ /\ raised' # "none" => (session' = session /\ dialog'.kind = "error")
        /\ session' # session => (raised' = "none" /\ call' # <<>>) ]_vars

\* C6 witness: a component call has just raised while a document, its tokens
\* and a frequency table were stored.
C6_Witness ==
    /\ raised # "none"
    /\ call # <<>>
    /\ dialog.kind = "error"
    /\ raw_text # <<>> /\ tokens # <<>> /\ word_freq # <<>>

\* C9 as stated: when generate_wordcloud is called the token sequence is not
\* empty, and when plot_freq_chart is called the frequency table is not empty
\* and comes from a token sequence that is not empty.
C9_RenderAfterTokenize ==
    call # <<>> =>
        /\ call[1].fn = "generate_wordcloud" => tokens # <<>>
        /\ call[1].fn = "plot_freq_chart" =>
              (word_freq # <<>> /\ word_freq[1] # <<>> /\ tokens # <<>>)

\* C10 as stated: the stored tokens are empty or the tokenization of the
\* stored document (under the vocabulary with or without the user
\* dictionary), and the stored table is unset or the table of the stored
\* tokens.
C10_SessionCoherent ==
    /\ tokens = <<>> \/ \E ud \in BOOLEAN : tokens = Cut(raw_text, Vocab(ud))
    /\ word_freq = <<>>
          \/ word_freq[1] = get_word_freq(tokens, stopwords_file).val

=============================================================================
